---- MODULE Spec2Model ----
(***************************************************************************)
(* Model of the update-and-integrity subsystem of gemnasium/toolbelt:      *)
(*   models/dependency_file.go  DependencyFile, fingerprinting, Patch      *)
(*   autoupdate (updater)       NewUpdater, RubygemsUpdater                *)
(*                                                                         *)
(* The program is single threaded: one operation is in flight at a time    *)
(* (pc).  The file on disk is shared with the environment: it is rewritten *)
(* or removed between operations (EnvWrite), by the external update        *)
(* command while it runs, and by the patch tool while it runs.  A file can *)
(* also become unreadable between the two reads that NewDependencyFile and *)
(* Update make of it (the parameter mid of those operators).               *)
(***************************************************************************)
EXTENDS Integers, Sequences, FiniteSets, TLC

\* ------------------------------------------------------------------ bounds
MaxRuns == 1         \* calls of RubygemsUpdater in one behaviour
PipeCap == 1         \* capacity of an OS pipe buffer, in bytes
MaxPatch == 2        \* longest patch text, in bytes
MaxOut == 2          \* most output the patch tool writes in one phase

\* ------------------------------------------------------------------ data
Bytes == {97, 98}
NUL == 0

SeqsUpTo(S, n) == UNION {[1..k -> S] : k \in 0..n}

\* the contents Gemfile.lock takes
FileContents == { <<>>, <<97>>, <<98>> }

\* what ioutil.ReadFile finds at the path: the bytes, or no readable file
Unreadable == [readable |-> FALSE, bytes |-> <<>>]
OnDisk(c) == [readable |-> TRUE, bytes |-> c]
DiskStates == {OnDisk(c) : c \in FileContents} \cup {Unreadable}

GemfileLockPath == "Gemfile.lock"

\* error values; kind "nil" is Go's nil error
Err(kind, msg) == [kind |-> kind, msg |-> msg]
nil == Err("nil", <<>>)
PathError == Err("PathError", <<GemfileLockPath>>)

\* ----------------------------------------------------------- fingerprint
\* "blob " as bytes
BlobPrefix == <<98, 108, 111, 98, 32>>

\* fmt.Sprintf("%d", n) for the lengths the model reaches (one digit)
Decimal(n) == <<48 + n>>

\* header := fmt.Sprintf("blob %d\x00", len(dat))
BlobHeader(dat) == BlobPrefix \o Decimal(Len(dat)) \o <<NUL>>

\* sha1 + "%x": a digest stands for the message it was computed from
\* (SHA-1 taken as collision free)
Sha1Hex(msg) == [sha1 |-> msg]

NoSHA == [sha1 |-> <<>>]

\* the content is never copied into the hash
GetFileSHA1_HeaderOnly(d) ==
  IF ~d.readable
    THEN [sum |-> NoSHA, err |-> PathError]
    ELSE [sum |-> Sha1Hex(BlobHeader(d.bytes)), err |-> nil]

GetFileSHA1(d) ==
  IF ~d.readable
    THEN [sum |-> NoSHA, err |-> PathError]
    ELSE [sum |-> Sha1Hex(BlobHeader(d.bytes) \o d.bytes), err |-> nil]

\* -------------------------------------------------------- DependencyFile
NilFile == [isNil |-> TRUE, Path |-> "", SHA |-> NoSHA, Content |-> <<>>]

DependencyFile(path, sha, content) ==
  [isNil |-> FALSE, Path |-> path, SHA |-> sha, Content |-> content]

\* d: the file at the first read; mid: the file at the second read
NewDependencyFile(d, mid) ==
  IF ~d.readable THEN NilFile
  ELSE IF GetFileSHA1(mid).err.kind # "nil" THEN NilFile
  ELSE DependencyFile(GemfileLockPath, GetFileSHA1(mid).sum, d.bytes)

\* the message names the two fingerprints the wrong way round
CheckFileSHA1_Swapped(f, d) ==
  LET r == GetFileSHA1(d) IN
  IF r.err.kind # "nil" THEN r.err
  ELSE IF r.sum # f.SHA
    THEN Err("SignatureMismatch", <<f.Path, r.sum, f.SHA>>)
  ELSE nil

CheckFileSHA1(f, d) ==
  LET r == GetFileSHA1(d) IN
  IF r.err.kind # "nil" THEN r.err
  ELSE IF r.sum # f.SHA
    THEN Err("SignatureMismatch", <<f.Path, f.SHA, r.sum>>)
  ELSE nil

UpdateSHA_NoStore(f, d) ==
  LET r == GetFileSHA1(d) IN
  IF r.err.kind # "nil" THEN [df |-> f, err |-> r.err]
  ELSE [df |-> f, err |-> nil]

UpdateSHA(f, d) ==
  LET r == GetFileSHA1(d) IN
  IF r.err.kind # "nil" THEN [df |-> f, err |-> r.err]
  ELSE [df |-> [f EXCEPT !.SHA = r.sum], err |-> nil]

Update(f, d, mid) ==
  IF ~d.readable THEN [df |-> f, err |-> PathError]
  ELSE UpdateSHA([f EXCEPT !.Content = d.bytes], mid)

\* the file states the second read of an operation can find
SecondRead(d) == {d, Unreadable}

\* ------------------------------------------------------------- autoupdate
\* strings of the command line are sequences of one-character strings
IsSpace(c) == c \in {" ", "\t", "\n"}

RECURSIVE SplitFields(_, _, _)
SplitFields(s, cur, acc) ==
  IF s = <<>>
    THEN IF cur = <<>> THEN acc ELSE Append(acc, cur)
  ELSE IF IsSpace(Head(s))
    THEN SplitFields(Tail(s), <<>>, IF cur = <<>> THEN acc ELSE Append(acc, cur))
  ELSE SplitFields(Tail(s), Append(cur, Head(s)), acc)

\* strings.Fields
Fields(s) == SplitFields(s, <<>>, <<>>)

BUNDLE_UPDATE_CMD == <<"b", "u", "n", "d", "l", "e", " ", "u", "p", "d", "a", "t", "e">>

\* values of the environment variable ENV_GEMNASIUM_BUNDLE_UPDATE_CMD
\* ("" is also what os.Getenv returns for an unset variable)
EnvValues == { <<>>, <<" ">>, <<"u", "p", " ", "-", "q">> }

PackageNames == { <<"r", "a", "i", "l", "s">>, <<"r", "a", "k", "e">> }

VersionUpdate(name) ==
  [Package |-> [Name |-> name], OldVersion |-> "6.0.0", TargetVersion |-> "6.1.0"]

Rails == VersionUpdate(<<"r", "a", "i", "l", "s">>)
Rake == VersionUpdate(<<"r", "a", "k", "e">>)

\* the UpdateSets a caller passes: none, one, two in either order, one twice
UpdateSets == { <<>>, <<Rails>>, <<Rails, Rake>>, <<Rake, Rails>>, <<Rake, Rake>> }

\* upt := BUNDLE_UPDATE_CMD; if uptEnv != "" { upt = uptEnv }
BaseCommand(uptEnv) == IF uptEnv # <<>> THEN uptEnv ELSE BUNDLE_UPDATE_CMD

\* the names are put in front, one before the other
RECURSIVE AppendNames_Reversed(_, _)
AppendNames_Reversed(parts, vus) ==
  IF vus = <<>> THEN parts
  ELSE Append(AppendNames_Reversed(parts, Tail(vus)), Head(vus).Package.Name)

RECURSIVE AppendNames(_, _)
AppendNames(parts, vus) ==
  IF vus = <<>> THEN parts
  ELSE AppendNames(Append(parts, Head(vus).Package.Name), Tail(vus))

\* parts := strings.Fields(upt); for each vu: parts = append(parts, vu.Package.Name)
CommandLine(uptEnv, vus) == AppendNames(Fields(BaseCommand(uptEnv)), vus)

\* output of the external command: a text is a sequence of lines, a line a
\* sequence of pieces
CompatPattern == "Bundler could not find compatible versions for gem"
OutputLines ==
  { <<CompatPattern, " \"rails\":">>,
    <<"  ", CompatPattern, " \"rails\":">>,
    <<"Fetching gem metadata">> }
OutputTexts == SeqsUpTo(OutputLines, 1)

\* regexp "(?m)^Bundler could not find compatible versions for gem"
MatchString(text) == \E i \in 1..Len(text) : text[i][1] = CompatPattern

cantUpdateVersions == Err("cantUpdateVersions", <<"Can't update versions">>)
cantFindUpdater(packageType) ==
  Err("cantFindUpdater", <<"Can't find updater for package type: ", packageType, "\n">>)
ExitError == Err("ExitError", <<"exit status 1">>)
ExecError == Err("ExecError", <<"executable file not found in $PATH">>)
EPIPE == Err("EPIPE", <<"write |1: broken pipe">>)
ReadError == Err("ReadError", <<"read |0: input/output error">>)

PackageTypes == {"Rubygem", "rubygem", "Nonexistent"}

\* a registry that folds the case of its keys
updaters_CaseFolded == [t \in {"Rubygem", "rubygem"} |-> "RubygemsUpdater"]

updaters == [t \in {"Rubygem"} |-> "RubygemsUpdater"]

\* lines 59-68: the error RubygemsUpdater returns for a failed command
ClassifyFailure(err, out) ==
  IF MatchString(out) THEN cantUpdateVersions ELSE err

NewUpdater(packageType) ==
  IF packageType \in DOMAIN updaters
    THEN [upt |-> updaters[packageType], err |-> nil]
    ELSE [upt |-> "nil", err |-> cantFindUpdater(packageType)]

\* ------------------------------------------------------ dependency files
\* the working directory as filepath.Walk(".") visits it, in lexical order;
\* dir is the directory an entry is in
WalkEntries ==
  << [path |-> ".", name |-> ".", isDir |-> TRUE, dir |-> ""],
     [path |-> ".git", name |-> ".git", isDir |-> TRUE, dir |-> "."],
     [path |-> ".git/Gemfile", name |-> "Gemfile", isDir |-> FALSE, dir |-> ".git"],
     [path |-> "Gemfile", name |-> "Gemfile", isDir |-> FALSE, dir |-> "."],
     [path |-> "Gemfile.lock", name |-> "Gemfile.lock", isDir |-> FALSE, dir |-> "."],
     [path |-> "README.md", name |-> "README.md", isDir |-> FALSE, dir |-> "."] >>

\* the files whose state varies
FsPaths == {"Gemfile", "Gemfile.lock"}

\* the other files are there and readable
FileAt(f, path) == IF path \in FsPaths THEN f[path] ELSE OnDisk(<<97>>)

\* regexp.MatchString(SUPPORTED_DEPENDENCY_FILES, name), for the names of
\* WalkEntries
SupportedName(name) == name \in {"Gemfile", "Gemfile.lock"}

\* values of config.IgnoredPaths; filepath.Match of a pattern without
\* wildcards is equality
IgnoredPathsValues == { {}, {"Gemfile.lock"} }

\* the lists of paths a caller passes to LookupDependencyFiles
FileLists ==
  { <<>>, <<"Gemfile">>, <<"Gemfile", "Gemfile.lock">>, <<"Gemfile.lock", "Gemfile">> }

NewDependencyFileAt(filePath, d) ==
  IF NewDependencyFile(d, d).isNil THEN NilFile
  ELSE [NewDependencyFile(d, d) EXCEPT !.Path = filePath]

\* searchDeps (lines 157-188): what the callback tells Walk, and whether it
\* appends the file
SearchDeps(e, ignored) ==
  IF e.isDir /\ e.name = ".git" THEN [ret |-> "SkipDir", add |-> FALSE]
  ELSE IF e.name \in ignored THEN [ret |-> "SkipDir", add |-> FALSE]
  ELSE [ret |-> "nil", add |-> SupportedName(e.name)]

\* filepath.Walk: SkipDir from a directory skips what is in it, SkipDir from
\* a file skips the rest of its directory
RECURSIVE WalkFrom(_, _, _, _, _)
WalkFrom(i, f, ignored, skipped, dfiles) ==
  IF i > Len(WalkEntries) THEN dfiles
  ELSE LET e == WalkEntries[i]
           r == SearchDeps(e, ignored)
       IN IF e.dir \in skipped
            THEN WalkFrom(i + 1, f, ignored, skipped, dfiles)
          ELSE IF r.ret = "SkipDir"
            THEN WalkFrom(i + 1, f, ignored,
                          skipped \cup {IF e.isDir THEN e.path ELSE e.dir}, dfiles)
          ELSE WalkFrom(i + 1, f, ignored, skipped,
                        IF r.add
                          THEN Append(dfiles, NewDependencyFileAt(e.path, FileAt(f, e.path)))
                          ELSE dfiles)

\* lines 155-194
getLocalDependencyFiles(f, ignored) ==
  [dfiles |-> WalkFrom(1, f, ignored, {}, <<>>), isNil |-> FALSE, err |-> nil]

UnableToRead(path) == Err("UnableToRead", <<"Unable to read file: ", path>>)

\* lines 247-254
RECURSIVE LoadFiles(_, _, _)
LoadFiles(files, f, dfiles) ==
  IF files = <<>> THEN [dfiles |-> dfiles, isNil |-> FALSE, err |-> nil]
  ELSE IF NewDependencyFileAt(Head(files), FileAt(f, Head(files))).isNil
    THEN [dfiles |-> <<>>, isNil |-> TRUE, err |-> UnableToRead(Head(files))]
  ELSE LoadFiles(Tail(files), f,
                 Append(dfiles, NewDependencyFileAt(Head(files), FileAt(f, Head(files)))))

\* lines 244-264
LookupDependencyFiles(files, f, ignored) ==
  IF Len(files) > 0 THEN LoadFiles(files, f, <<>>)
  ELSE getLocalDependencyFiles(f, ignored)

NoResult ==
  [called |-> FALSE, files |-> <<>>, entry |-> [p \in FsPaths |-> Unreadable],
   dfiles |-> <<>>, isNil |-> TRUE, err |-> nil]
NoSum == [done |-> FALSE, sum |-> NoSHA, bytes |-> <<>>]
NoSums == [p \in FsPaths |-> NoSum]

\* ---------------------------------------------------------------- state
VARIABLES
  disk,         \* Gemfile.lock on disk
  df,           \* a DependencyFile the caller holds
  pc,           \* position of the one thread of control
  last,         \* the last event: operation, its error, and the event before
  strategy,     \* the UpdateFunc the caller got from NewUpdater
  orgDepFiles,  \* the caller's Original set
  uptDepFiles,  \* the caller's Updated set
  ru,           \* the frame of the running call of RubygemsUpdater
  runs,         \* calls of RubygemsUpdater so far
  pt,           \* the frame of the running call of Patch, and its child process
  fs,           \* the dependency files of the working directory, by path
  sums,         \* by path: the last result of GetFileSHA1 and the bytes it read
  found         \* what the last call of LookupDependencyFiles returned

fileVars == <<disk, df>>
setVars == <<orgDepFiles, uptDepFiles, runs>>
lookupVars == <<fs, sums, found>>
vars ==
  <<disk, df, pc, last, strategy, orgDepFiles, uptDepFiles, ru, runs, pt,
    fs, sums, found>>

\* the frame of RubygemsUpdater: its arguments, its locals, what the call
\* found on entry, whether its command was started, and the error of Update
\* that line 69 drops
NoFrame ==
  [versionUpdates |-> <<>>, uptEnv |-> <<>>, GemfileLock |-> NilFile,
   parts |-> <<>>, out |-> <<>>, stderr |-> <<>>, err |-> nil,
   resyncErr |-> nil, ret |-> nil, started |-> FALSE,
   entry |-> [org |-> <<>>, upt |-> <<>>, disk |-> Unreadable]]

\* the frame of Patch: what is left of the patch text to write, the two pipes,
\* and the patch tool: the output it writes before it reads its input
\* (preLeft) and after it (postLeft), whether it has read to the end of its
\* input, whether it has exited and with what status, and whether cmd.Wait
\* has reaped it
NoPatch ==
  [started |-> FALSE, patchLeft |-> 0, stdinBuf |-> 0, stdinOpen |-> FALSE,
   stdoutBuf |-> 0, preLeft |-> 0, postLeft |-> 0, status |-> 0,
   eof |-> FALSE, exited |-> FALSE, waited |-> FALSE, ret |-> nil,
   entry |-> NilFile]

\* what the caller's sets hold before the first call of the strategy: nothing,
\* or the entries another strategy of the same type left for another file
PriorSets ==
  { [org |-> <<>>, upt |-> <<>>],
    [org |-> <<DependencyFile("Gemfile", GetFileSHA1(OnDisk(<<97>>)).sum, <<97>>)>>,
     upt |-> <<DependencyFile("Gemfile", GetFileSHA1(OnDisk(<<98>>)).sum, <<98>>)>>] }

\* afterUpdate: the event before this one was an Update that returned nil
NoEvent == [op |-> "none", err |-> nil, afterUpdate |-> FALSE]

Event(op, err) ==
  [op |-> op, err |-> err,
   afterUpdate |-> (last.op = "Update" /\ last.err.kind = "nil")]

Init ==
  /\ disk \in DiskStates
  /\ df = NilFile
  /\ pc = "idle"
  /\ last = NoEvent
  /\ strategy = "nil"
  /\ \E prior \in PriorSets :
       /\ orgDepFiles = prior.org
       /\ uptDepFiles = prior.upt
  /\ ru = NoFrame
  /\ runs = 0
  /\ pt = NoPatch
  /\ fs = [p \in FsPaths |-> OnDisk(<<>>)]
  /\ sums = NoSums
  /\ found = NoResult

\* another process rewrites or removes the file between two operations
EnvWrite ==
  /\ pc = "idle"
  /\ \E d \in DiskStates \ {disk} : disk' = d
  /\ last' = Event("write", nil)
  /\ UNCHANGED <<df, pc, strategy, setVars, ru, pt, lookupVars>>

DF_New ==
  /\ pc = "idle"
  /\ \E mid \in SecondRead(disk) :
       /\ df' = NewDependencyFile(disk, mid)
       /\ disk' = mid
       /\ last' = Event("NewDependencyFile", IF df'.isNil THEN PathError ELSE nil)
  /\ UNCHANGED <<pc, strategy, setVars, ru, pt, lookupVars>>

DF_CheckFileSHA1 ==
  /\ pc = "idle"
  /\ ~df.isNil
  /\ last' = Event("CheckFileSHA1", CheckFileSHA1(df, disk))
  /\ UNCHANGED <<disk, df, pc, strategy, setVars, ru, pt, lookupVars>>

DF_UpdateSHA ==
  /\ pc = "idle"
  /\ ~df.isNil
  /\ df' = UpdateSHA(df, disk).df
  /\ last' = Event("UpdateSHA", UpdateSHA(df, disk).err)
  /\ UNCHANGED <<disk, pc, strategy, setVars, ru, pt, lookupVars>>

DF_Update ==
  /\ pc = "idle"
  /\ ~df.isNil
  /\ \E mid \in SecondRead(disk) :
       /\ df' = Update(df, disk, mid).df
       /\ last' = Event("Update", Update(df, disk, mid).err)
       /\ disk' = mid
  /\ UNCHANGED <<pc, strategy, setVars, ru, pt, lookupVars>>

\* --------------------------------------------------------------- updater
NewUpdaterCall(packageType) ==
  /\ pc = "idle"
  /\ strategy' = NewUpdater(packageType).upt
  /\ last' = Event("NewUpdater", NewUpdater(packageType).err)
  /\ UNCHANGED <<fileVars, pc, setVars, ru, pt, lookupVars>>

NewUpdaterStep == \E packageType \in PackageTypes : NewUpdaterCall(packageType)

\* the caller runs the strategy it looked up
RU_Call ==
  /\ pc = "idle"
  /\ strategy = "RubygemsUpdater"
  /\ runs < MaxRuns
  /\ runs' = runs + 1
  /\ \E vus \in UpdateSets, uptEnv \in EnvValues :
       ru' = [NoFrame EXCEPT !.versionUpdates = vus, !.uptEnv = uptEnv,
                !.entry = [org |-> orgDepFiles, upt |-> uptDepFiles, disk |-> disk]]
  /\ pc' = "ru_snapshot"
  /\ UNCHANGED <<fileVars, last, strategy, orgDepFiles, uptDepFiles, pt, lookupVars>>

\* the snapshot is read but not yet put into Original
RU_Snapshot_Deferred ==
  /\ pc = "ru_snapshot"
  /\ \E mid \in SecondRead(disk) :
       LET GemfileLock == NewDependencyFile(disk, mid) IN
       /\ disk' = mid
       /\ IF GemfileLock.isNil
            THEN /\ pc' = "panic"
                 /\ UNCHANGED ru
            ELSE /\ ru' = [ru EXCEPT !.GemfileLock = GemfileLock]
                 /\ pc' = "ru_build"
  /\ UNCHANGED <<df, last, strategy, setVars, pt, lookupVars>>

\* lines 45-46; dereferencing the nil file panics
RU_Snapshot ==
  /\ pc = "ru_snapshot"
  /\ \E mid \in SecondRead(disk) :
       LET GemfileLock == NewDependencyFile(disk, mid) IN
       /\ disk' = mid
       /\ IF GemfileLock.isNil
            THEN /\ pc' = "panic"
                 /\ UNCHANGED <<orgDepFiles, ru>>
            ELSE /\ orgDepFiles' = Append(orgDepFiles, GemfileLock)
                 /\ ru' = [ru EXCEPT !.GemfileLock = GemfileLock]
                 /\ pc' = "ru_build"
  /\ UNCHANGED <<df, last, strategy, uptDepFiles, runs, pt, lookupVars>>

\* lines 48-57
RU_BuildCommand ==
  /\ pc = "ru_build"
  /\ ru' = [ru EXCEPT !.parts = CommandLine(ru.uptEnv, ru.versionUpdates)]
  /\ pc' = "ru_exec"
  /\ UNCHANGED <<fileVars, last, strategy, setVars, pt, lookupVars>>

\* line 58: parts[0] of an empty slice panics; the command starts, or
\* fails to start (no such executable) with no output
RU_Exec ==
  /\ pc = "ru_exec"
  /\ IF ru.parts = <<>>
       THEN /\ pc' = "panic"
            /\ UNCHANGED ru
       ELSE \/ /\ ru' = [ru EXCEPT !.started = TRUE]
               /\ pc' = "ru_running"
            \/ /\ ru' = [ru EXCEPT !.err = ExecError]
               /\ pc' = "ru_classify"
  /\ UNCHANGED <<fileVars, last, strategy, setVars, pt, lookupVars>>

\* the external command rewrites or removes Gemfile.lock
RU_CommandWrites ==
  /\ pc = "ru_running"
  /\ \E d \in DiskStates \ {disk} : disk' = d
  /\ UNCHANGED <<df, pc, last, strategy, setVars, ru, pt, lookupVars>>

\* line 58: Output() waits for the command and returns its standard output
RU_CommandExit ==
  /\ pc = "ru_running"
  /\ \E status \in {0, 1}, stdout \in OutputTexts, stderr \in OutputTexts :
       ru' = [ru EXCEPT !.out = stdout, !.stderr = stderr,
                !.err = IF status = 0 THEN nil ELSE ExitError]
  /\ pc' = "ru_classify"
  /\ UNCHANGED <<fileVars, last, strategy, setVars, pt, lookupVars>>

\* the file is put into Updated before the error is looked at
RU_Classify_AppendsFirst ==
  /\ pc = "ru_classify"
  /\ uptDepFiles' = Append(uptDepFiles, ru.GemfileLock)
  /\ IF ru.err.kind # "nil"
       THEN /\ ru' = [ru EXCEPT !.ret = ClassifyFailure(ru.err, ru.out)]
            /\ pc' = "ru_returned"
       ELSE /\ pc' = "ru_resync"
            /\ UNCHANGED ru
  /\ UNCHANGED <<fileVars, last, strategy, orgDepFiles, runs, pt, lookupVars>>

\* Original holds a reference to the file, which is resynchronized on failure
RU_Classify_Resyncs ==
  /\ pc = "ru_classify"
  /\ IF ru.err.kind # "nil"
       THEN /\ ru' = [ru EXCEPT !.ret = ClassifyFailure(ru.err, ru.out)]
            /\ orgDepFiles' =
                 [orgDepFiles EXCEPT ![Len(orgDepFiles)] = Update(@, disk, disk).df]
            /\ pc' = "ru_returned"
       ELSE /\ pc' = "ru_resync"
            /\ UNCHANGED <<ru, orgDepFiles>>
  /\ UNCHANGED <<fileVars, last, strategy, uptDepFiles, runs, pt, lookupVars>>

\* lines 59-68
RU_Classify ==
  /\ pc = "ru_classify"
  /\ IF ru.err.kind # "nil"
       THEN /\ ru' = [ru EXCEPT !.ret = ClassifyFailure(ru.err, ru.out)]
            /\ pc' = "ru_returned"
       ELSE /\ pc' = "ru_resync"
            /\ UNCHANGED ru
  /\ UNCHANGED <<fileVars, last, strategy, setVars, pt, lookupVars>>

\* the resynchronized file is appended to the wrong set
RU_Resync_WrongSet ==
  /\ pc = "ru_resync"
  /\ \E mid \in SecondRead(disk) :
       LET GemfileLock == Update(ru.GemfileLock, disk, mid).df IN
       /\ disk' = mid
       /\ ru' = [ru EXCEPT !.GemfileLock = GemfileLock, !.ret = nil,
                !.resyncErr = Update(ru.GemfileLock, disk, mid).err]
       /\ orgDepFiles' = Append(orgDepFiles, GemfileLock)
  /\ pc' = "ru_returned"
  /\ UNCHANGED <<df, last, strategy, uptDepFiles, runs, pt, lookupVars>>

\* Original holds a reference to the file object, so the resynchronization
\* shows in its entry too
RU_Resync_Aliased ==
  /\ pc = "ru_resync"
  /\ \E mid \in SecondRead(disk) :
       LET GemfileLock == Update(ru.GemfileLock, disk, mid).df IN
       /\ disk' = mid
       /\ ru' = [ru EXCEPT !.GemfileLock = GemfileLock, !.ret = nil,
                !.resyncErr = Update(ru.GemfileLock, disk, mid).err]
       /\ orgDepFiles' = [orgDepFiles EXCEPT ![Len(orgDepFiles)] = GemfileLock]
       /\ uptDepFiles' = Append(uptDepFiles, GemfileLock)
  /\ pc' = "ru_returned"
  /\ UNCHANGED <<df, last, strategy, runs, pt, lookupVars>>

\* lines 69-72: the error of Update is dropped
RU_Resync ==
  /\ pc = "ru_resync"
  /\ \E mid \in SecondRead(disk) :
       LET GemfileLock == Update(ru.GemfileLock, disk, mid).df IN
       /\ disk' = mid
       /\ ru' = [ru EXCEPT !.GemfileLock = GemfileLock, !.ret = nil,
                !.resyncErr = Update(ru.GemfileLock, disk, mid).err]
       /\ uptDepFiles' = Append(uptDepFiles, GemfileLock)
  /\ pc' = "ru_returned"
  /\ UNCHANGED <<df, last, strategy, orgDepFiles, runs, pt, lookupVars>>

\* control is back in the caller; the frame is gone
RU_Return ==
  /\ pc = "ru_returned"
  /\ last' = Event("RubygemsUpdater", ru.ret)
  /\ ru' = NoFrame
  /\ pc' = "idle"
  /\ UNCHANGED <<fileVars, strategy, setVars, pt, lookupVars>>

RubygemsUpdater ==
  \/ RU_Call \/ RU_Snapshot \/ RU_BuildCommand \/ RU_Exec \/ RU_CommandWrites
  \/ RU_CommandExit \/ RU_Classify \/ RU_Resync \/ RU_Return

UpdaterNext == EnvWrite \/ NewUpdaterStep \/ RubygemsUpdater

UpdaterSpec == Init /\ [][UpdaterNext]_vars

\* ----------------------------------------------------------------- Patch
\* lines 80-97: LookPath, the two pipes, Start.  The tool's behaviour is
\* fixed by the tool and the patch: it is chosen here and acted out below.
P_Call ==
  /\ pc = "idle"
  /\ ~df.isNil
  /\ \/ /\ pt' = [NoPatch EXCEPT !.ret = ExecError, !.entry = df]
        /\ pc' = "p_returned"
     \/ /\ \E n \in 0..MaxPatch, pre \in 0..MaxOut, post \in 0..MaxOut, status \in {0, 1} :
             pt' = [NoPatch EXCEPT !.started = TRUE, !.patchLeft = n, !.stdinOpen = TRUE,
                      !.preLeft = pre, !.postLeft = post, !.status = status,
                      !.entry = df]
        /\ pc' = "p_write"
  /\ UNCHANGED <<fileVars, last, strategy, setVars, ru, lookupVars>>

\* line 99: io.WriteString blocks while the pipe is full, and fails once the
\* tool has gone
P_Write ==
  /\ pc = "p_write"
  /\ pt.patchLeft > 0
  /\ IF pt.exited
       THEN /\ pt' = [pt EXCEPT !.ret = EPIPE]
            /\ pc' = "p_returned"
       ELSE /\ pt.stdinBuf < PipeCap
            /\ pt' = [pt EXCEPT !.stdinBuf = @ + 1, !.patchLeft = @ - 1]
            /\ UNCHANGED pc
  /\ UNCHANGED <<fileVars, last, strategy, setVars, ru, lookupVars>>

\* lines 100-103
P_CloseStdin ==
  /\ pc = "p_write"
  /\ pt.patchLeft = 0
  /\ pt' = [pt EXCEPT !.stdinOpen = FALSE]
  /\ pc' = "p_read"
  /\ UNCHANGED <<fileVars, last, strategy, setVars, ru, lookupVars>>

\* line 105: ioutil.ReadAll takes what is in the pipe, and ends when the tool
\* has exited and the pipe is empty
P_Read ==
  /\ pc = "p_read"
  /\ \/ /\ pt.stdoutBuf > 0
        /\ pt' = [pt EXCEPT !.stdoutBuf = @ - 1]
        /\ UNCHANGED pc
     \/ /\ pt.stdoutBuf = 0
        /\ pt.exited
        /\ pc' = "p_wait"
        /\ UNCHANGED pt
  /\ UNCHANGED <<fileVars, last, strategy, setVars, ru, lookupVars>>

\* lines 106-108
P_ReadFails ==
  /\ pc = "p_read"
  /\ pt' = [pt EXCEPT !.ret = ReadError]
  /\ pc' = "p_returned"
  /\ UNCHANGED <<fileVars, last, strategy, setVars, ru, lookupVars>>

\* the error of cmd.Wait is not looked at
P_Wait_IgnoresStatus ==
  /\ pc = "p_wait"
  /\ pt.exited
  /\ \E mid \in SecondRead(disk) :
       /\ df' = Update(df, disk, mid).df
       /\ pt' = [pt EXCEPT !.ret = Update(df, disk, mid).err, !.waited = TRUE]
       /\ disk' = mid
  /\ pc' = "p_returned"
  /\ UNCHANGED <<last, strategy, setVars, ru, lookupVars>>

\* lines 109-118
P_Wait ==
  /\ pc = "p_wait"
  /\ pt.exited
  /\ IF pt.status # 0
       THEN /\ pt' = [pt EXCEPT !.ret = ExitError, !.waited = TRUE]
            /\ UNCHANGED fileVars
       ELSE \E mid \in SecondRead(disk) :
              /\ df' = Update(df, disk, mid).df
              /\ pt' = [pt EXCEPT !.ret = Update(df, disk, mid).err, !.waited = TRUE]
              /\ disk' = mid
  /\ pc' = "p_returned"
  /\ UNCHANGED <<last, strategy, setVars, ru, lookupVars>>

\* control is back in the caller; the frame is gone
P_Return ==
  /\ pc = "p_returned"
  /\ last' = Event("Patch", pt.ret)
  /\ pt' = NoPatch
  /\ pc' = "idle"
  /\ UNCHANGED <<fileVars, strategy, setVars, ru, lookupVars>>

\* the patch tool, between Start and its exit
ToolRuns == pc \in {"p_write", "p_read"} /\ pt.started /\ ~pt.exited

\* the tool writes to its standard output before it reads its input
Tool_WritePre ==
  /\ ToolRuns
  /\ pt.preLeft > 0
  /\ pt.stdoutBuf < PipeCap
  /\ pt' = [pt EXCEPT !.preLeft = @ - 1, !.stdoutBuf = @ + 1]
  /\ UNCHANGED <<fileVars, pc, last, strategy, setVars, ru, lookupVars>>

Tool_ReadInput ==
  /\ ToolRuns
  /\ pt.preLeft = 0
  /\ ~pt.eof
  /\ pt.stdinBuf > 0
  /\ pt' = [pt EXCEPT !.stdinBuf = @ - 1]
  /\ UNCHANGED <<fileVars, pc, last, strategy, setVars, ru, lookupVars>>

\* the tool has the whole patch: it rewrites the file, all of it when it is
\* to exit with status 0, and all, part or none of it otherwise
Tool_Apply ==
  /\ ToolRuns
  /\ pt.preLeft = 0
  /\ ~pt.eof
  /\ pt.stdinBuf = 0
  /\ ~pt.stdinOpen
  /\ pt' = [pt EXCEPT !.eof = TRUE]
  /\ \E c \in FileContents :
       /\ pt.status # 0 => disk.readable
       /\ disk' = OnDisk(c)
  /\ UNCHANGED <<df, pc, last, strategy, setVars, ru, lookupVars>>

Tool_WritePost ==
  /\ ToolRuns
  /\ pt.eof
  /\ pt.postLeft > 0
  /\ pt.stdoutBuf < PipeCap
  /\ pt' = [pt EXCEPT !.postLeft = @ - 1, !.stdoutBuf = @ + 1]
  /\ UNCHANGED <<fileVars, pc, last, strategy, setVars, ru, lookupVars>>

\* the tool exits when it is done, or at once when it cannot work at all
Tool_Exit ==
  /\ ToolRuns
  /\ \/ pt.eof /\ pt.postLeft = 0
     \/ ~pt.eof /\ pt.preLeft = 0 /\ pt.status # 0
  /\ pt' = [pt EXCEPT !.exited = TRUE]
  /\ UNCHANGED <<fileVars, pc, last, strategy, setVars, ru, lookupVars>>

PatchStep ==
  \/ P_Write \/ P_CloseStdin \/ P_Read \/ P_ReadFails \/ P_Wait \/ P_Return
  \/ Tool_WritePre \/ Tool_ReadInput \/ Tool_Apply \/ Tool_WritePost \/ Tool_Exit

PatchNext == EnvWrite \/ DF_New \/ P_Call \/ PatchStep

PatchSpec == Init /\ [][PatchNext]_vars

\* ----------------------------------------------------- lookup and hashing
LookupInit ==
  /\ disk = Unreadable
  /\ df = NilFile
  /\ pc = "idle"
  /\ last = NoEvent
  /\ strategy = "nil"
  /\ orgDepFiles = <<>>
  /\ uptDepFiles = <<>>
  /\ ru = NoFrame
  /\ runs = 0
  /\ pt = NoPatch
  /\ fs \in [FsPaths -> DiskStates]
  /\ sums = NoSums
  /\ found = NoResult

\* another process rewrites or removes a dependency file
FsWrite ==
  /\ \E p \in FsPaths : \E d \in DiskStates \ {fs[p]} : fs' = [fs EXCEPT ![p] = d]
  /\ UNCHANGED <<fileVars, pc, last, strategy, setVars, ru, pt, sums, found>>

\* GetFileSHA1(filePath) of a readable file
Hash_Compute ==
  /\ \E p \in FsPaths :
       /\ GetFileSHA1(fs[p]).err.kind = "nil"
       /\ sums' = [sums EXCEPT ![p] = [done |-> TRUE, sum |-> GetFileSHA1(fs[p]).sum,
                                        bytes |-> fs[p].bytes]]
  /\ UNCHANGED <<fileVars, pc, last, strategy, setVars, ru, pt, fs, found>>

Lookup_Call ==
  /\ \E files \in FileLists, ignored \in IgnoredPathsValues :
       found' = [called |-> TRUE, files |-> files, entry |-> fs,
                 dfiles |-> LookupDependencyFiles(files, fs, ignored).dfiles,
                 isNil |-> LookupDependencyFiles(files, fs, ignored).isNil,
                 err |-> LookupDependencyFiles(files, fs, ignored).err]
  /\ UNCHANGED <<fileVars, pc, last, strategy, setVars, ru, pt, fs, sums>>

LookupNext == FsWrite \/ Hash_Compute \/ Lookup_Call

LookupSpec == LookupInit /\ [][LookupNext]_vars

FileNext == EnvWrite \/ DF_New \/ DF_CheckFileSHA1 \/ DF_UpdateSHA \/ DF_Update

FileSpec == Init /\ [][FileNext]_vars

\* the whole program; its three parts share only the file on disk and are
\* checked one at a time under FileSpec, UpdaterSpec and PatchSpec
Next ==
  \/ EnvWrite \/ DF_New \/ DF_CheckFileSHA1 \/ DF_UpdateSHA \/ DF_Update
  \/ NewUpdaterStep \/ RubygemsUpdater \/ P_Call \/ PatchStep

Spec == Init /\ [][Next]_vars

\* ------------------------------------------------------------ properties
\* the entry a call of RubygemsUpdater is to put into Original: Gemfile.lock
\* as it was on disk when the call began
Snapshot(d) == DependencyFile(GemfileLockPath, GetFileSHA1(d).sum, d.bytes)

HasSnapshot ==
  /\ Len(orgDepFiles) = Len(ru.entry.org) + 1
  /\ orgDepFiles[Len(orgDepFiles)] = Snapshot(ru.entry.disk)

ReturnsError == pc = "ru_returned" /\ ru.ret.kind # "nil"
ReturnsNil == pc = "ru_returned" /\ ru.ret.kind = "nil"

\* C1: when the external update command is about to be started, and at every
\* moment after it was started, Original holds the snapshot of Gemfile.lock
\* taken on entry; the command never runs without it.
C1_SnapshotBeforeCommand == (pc = "ru_exec" \/ ru.started) => HasSnapshot

C1_Witness ==
  /\ pc = "ru_running"
  /\ ru.started
  /\ HasSnapshot
  /\ disk # ru.entry.disk

\* C2: when RubygemsUpdater returns an error, Updated is what it was on entry.
C2_UpdatedUntouchedOnError == ReturnsError => uptDepFiles = ru.entry.upt

C2_Witness ==
  /\ ReturnsError
  /\ ru.started
  /\ ru.ret.kind = "cantUpdateVersions"
  /\ ru.entry.upt # <<>>
  /\ uptDepFiles = ru.entry.upt

\* C3: on every failure path the entry this call appended to Original is the
\* content and fingerprint Gemfile.lock had when the call began, whatever the
\* command did to the file.
C3_OriginalIsPreCallState ==
  ReturnsError =>
    /\ HasSnapshot
    /\ SubSeq(orgDepFiles, 1, Len(ru.entry.org)) = ru.entry.org

C3_Witness ==
  /\ ReturnsError
  /\ ru.ret.kind = "ExitError"
  /\ disk.readable
  /\ disk # ru.entry.disk
  /\ orgDepFiles[Len(orgDepFiles)].Content = ru.entry.disk.bytes

\* C4: a failed command is classified by its combined output, standard output
\* and standard error together: cantUpdateVersions when the pattern matches a
\* line of either, the command's own error otherwise.
C4_ClassifiedByCombinedOutput ==
  (pc = "ru_returned" /\ ru.err.kind # "nil") =>
    IF MatchString(ru.out \o ru.stderr)
      THEN ru.ret.kind = "cantUpdateVersions"
      ELSE ru.ret = ru.err

\* C5 as claimed: a run that returns nil appends one entry to each set and the
\* two fingerprints differ.
C5_FingerprintAlwaysChanges ==
  ReturnsNil =>
    /\ Len(orgDepFiles) = Len(ru.entry.org) + 1
    /\ Len(uptDepFiles) = Len(ru.entry.upt) + 1
    /\ uptDepFiles[Len(uptDepFiles)].SHA # orgDepFiles[Len(orgDepFiles)].SHA

\* C5 as amended: a run that returns nil appends exactly one entry for
\* Gemfile.lock to each set, and the two fingerprints differ only if the file on
\* disk at the return differs from the file on entry.
C5_OneEntryEach ==
  ReturnsNil =>
    /\ Len(orgDepFiles) = Len(ru.entry.org) + 1
    /\ Len(uptDepFiles) = Len(ru.entry.upt) + 1
    /\ orgDepFiles[Len(orgDepFiles)].Path = GemfileLockPath
    /\ uptDepFiles[Len(uptDepFiles)].Path = GemfileLockPath
    /\ (disk = ru.entry.disk =>
          uptDepFiles[Len(uptDepFiles)].SHA = orgDepFiles[Len(orgDepFiles)].SHA)

C5_Witness ==
  /\ ReturnsNil
  /\ disk = ru.entry.disk
  /\ Len(uptDepFiles) = Len(ru.entry.upt) + 1
  /\ uptDepFiles[Len(uptDepFiles)] = orgDepFiles[Len(orgDepFiles)]

\* C6: a call of Patch that has started the tool never gets stuck: as long as
\* it has not returned, the caller or the tool can take a step.
C6_PatchNeverBlocks ==
  (pc \in {"p_write", "p_read", "p_wait", "p_returned"}) => ENABLED PatchStep

\* C9: Patch returns nil only when the tool exited with status 0, and then the
\* stored content and fingerprint are those of the file on disk; when the tool
\* exits with another status Patch returns an error and the file object is what
\* it was before the call.
C9_PatchResult ==
  pc = "p_returned" =>
    /\ pt.ret.kind = "nil" =>
         /\ pt.started /\ pt.exited /\ pt.status = 0
         /\ disk.readable
         /\ df.Content = disk.bytes
         /\ df.SHA = GetFileSHA1(disk).sum
    /\ (pt.started /\ pt.status # 0) =>
         /\ pt.ret.kind # "nil"
         /\ df = pt.entry

\* the same patch applied a second time
C9_Witness ==
  /\ pc = "p_returned"
  /\ last.op = "Patch"
  /\ last.err.kind = "nil"
  /\ pt.exited
  /\ pt.ret.kind = "ExitError"
  /\ df = pt.entry
  /\ df.Content = disk.bytes

\* C7: Update replaces content and fingerprint together: it returns nil and
\* both are those of the bytes on disk, or it returns an error and the file
\* object is what it was before the call.
C7_UpdateAtomic ==
  [][DF_Update =>
       \/ /\ last'.err.kind = "nil"
          /\ disk'.readable
          /\ df'.Content = disk'.bytes
          /\ df'.SHA = GetFileSHA1(disk').sum
       \/ /\ last'.err.kind # "nil"
          /\ df' = df]_vars

\* C8: CheckFileSHA1 called right after an Update that returned nil, with no
\* change of the file in between, returns nil.
C8_RoundTrip ==
  [][(last.op = "Update" /\ last.err.kind = "nil" /\ DF_CheckFileSHA1)
       => last'.err.kind = "nil"]_vars

C8_Witness ==
  /\ last.op = "CheckFileSHA1"
  /\ last.afterUpdate
  /\ last.err.kind = "nil"

\* C10: NewUpdater returns RubygemsUpdater and nil for "Rubygem"; for any other
\* identifier it returns no strategy and an error whose message holds the
\* identifier; either way it touches no file, runs no command and changes
\* neither set.
C10_NewUpdater ==
  [][\A t \in PackageTypes :
       NewUpdaterCall(t) =>
         /\ UNCHANGED <<disk, df, orgDepFiles, uptDepFiles, ru, runs, pc>>
         /\ IF t = "Rubygem"
              THEN /\ strategy' = "RubygemsUpdater"
                   /\ last'.err.kind = "nil"
              ELSE /\ strategy' = "nil"
                   /\ last'.err.kind = "cantFindUpdater"
                   /\ \E i \in 1..Len(last'.err.msg) : last'.err.msg[i] = t]_vars

C10_Witness ==
  /\ last.op = "NewUpdater"
  /\ last.err.kind = "cantFindUpdater"
  /\ last.err.msg[2] = "Nonexistent"
  /\ strategy = "nil"

\* C11 as claimed: an error of the resynchronization is returned and nothing
\* is appended to Updated, so an entry appended to Updated holds the content
\* and fingerprint of the file the command left on disk.
C11_ResyncErrorReturned ==
  pc = "ru_returned" =>
    /\ ru.resyncErr.kind # "nil" =>
         /\ ru.ret = ru.resyncErr
         /\ uptDepFiles = ru.entry.upt
    /\ Len(uptDepFiles) > Len(ru.entry.upt) =>
         /\ disk.readable
         /\ uptDepFiles[Len(uptDepFiles)] = Snapshot(disk)

\* C12 as claimed: a call that could not read Gemfile.lock for its snapshot
\* returns an IOError, has started no command and has appended nothing.
C12_UnreadableReturnsIOError ==
  (pc \notin {"idle", "ru_snapshot"} /\ ru.GemfileLock.isNil) =>
    /\ pc = "ru_returned"
    /\ ru.ret.kind = "PathError"
    /\ ~ru.started
    /\ orgDepFiles = ru.entry.org
    /\ uptDepFiles = ru.entry.upt

\* the maximal runs of non-space characters of a string, by where they start
RunStarts(s) ==
  {i \in 1..Len(s) : ~IsSpace(s[i]) /\ (i = 1 \/ IsSpace(s[i - 1]))}
RunEnd(s, i) ==
  CHOOSE e \in i..Len(s) :
    /\ \A j \in i..e : ~IsSpace(s[j])
    /\ e = Len(s) \/ IsSpace(s[e + 1])
\* tokens is the sequence of the runs of s, in order
IsTokensOf(tokens, s) ==
  /\ Len(tokens) = Cardinality(RunStarts(s))
  /\ \A i \in RunStarts(s) :
       tokens[Cardinality({j \in RunStarts(s) : j <= i})] = SubSeq(s, i, RunEnd(s, i))

\* C15: the command line executed is the tokens of the base command (the
\* override when it is not empty, "bundle update" otherwise), then the package
\* name of each VersionUpdate, one each, in the order of the UpdateSet.
C15_CommandLine ==
  ru.started =>
    LET base == IF ru.uptEnv = <<>> THEN BUNDLE_UPDATE_CMD ELSE ru.uptEnv
        n == Len(ru.versionUpdates)
        k == Len(ru.parts) - n
    IN /\ k >= 0
       /\ IsTokensOf(SubSeq(ru.parts, 1, k), base)
       /\ \A i \in 1..n : ru.parts[k + i] = ru.versionUpdates[i].Package.Name

C15_Witness ==
  /\ ru.started
  /\ ru.uptEnv # <<>>
  /\ Len(ru.versionUpdates) = 2
  /\ ru.versionUpdates[1] # ru.versionUpdates[2]
  /\ Len(ru.parts) = 4

\* C16 as claimed: whatever the override and the UpdateSet, the argument
\* vector is not empty and its first element is a token of the base command,
\* not a package name.
C16_ExecutableFromBaseCommand ==
  (pc \in {"ru_exec", "ru_running", "panic"} /\ ~ru.GemfileLock.isNil) =>
    /\ pc # "panic"
    /\ Len(ru.parts) > Len(ru.versionUpdates)

RuPcs ==
  {"ru_snapshot", "ru_build", "ru_exec", "ru_running", "ru_classify",
   "ru_resync", "ru_returned", "panic"}

\* C17: RubygemsUpdater only appends: what the sets held on entry is still
\* there, in place; and after a run that returned nil the entry appended to
\* Original is still the file as it was on entry, whatever the
\* resynchronization did to the file object.
C17_OnlyAppends ==
  pc \in RuPcs =>
    /\ Len(orgDepFiles) >= Len(ru.entry.org)
    /\ SubSeq(orgDepFiles, 1, Len(ru.entry.org)) = ru.entry.org
    /\ Len(uptDepFiles) >= Len(ru.entry.upt)
    /\ SubSeq(uptDepFiles, 1, Len(ru.entry.upt)) = ru.entry.upt
    /\ ReturnsNil => HasSnapshot

C17_Witness ==
  /\ ReturnsNil
  /\ ru.entry.org # <<>>
  /\ HasSnapshot
  /\ uptDepFiles[Len(uptDepFiles)].SHA # orgDepFiles[Len(orgDepFiles)].SHA
  /\ uptDepFiles[Len(uptDepFiles)].Content # orgDepFiles[Len(orgDepFiles)].Content

\* the fingerprint of a file that holds these bytes
Fingerprint(bytes) == GetFileSHA1(OnDisk(bytes)).sum

\* C13: CheckFileSHA1 returns nil exactly when the fingerprint of the bytes on
\* disk is the stored one; on a mismatch its error names the stored and the
\* recomputed fingerprint; it changes neither the object nor the file.
C13_CheckFileSHA1 ==
  [][DF_CheckFileSHA1 =>
       /\ df' = df
       /\ disk' = disk
       /\ last'.err.kind = "nil" <=>
            (disk.readable /\ Fingerprint(disk.bytes) = df.SHA)
       /\ (disk.readable /\ Fingerprint(disk.bytes) # df.SHA) =>
            /\ last'.err.kind = "SignatureMismatch"
            /\ last'.err.msg[2] = df.SHA
            /\ last'.err.msg[3] = Fingerprint(disk.bytes)]_vars

C13_Witness ==
  /\ last.op = "CheckFileSHA1"
  /\ last.err.kind = "SignatureMismatch"
  /\ disk.readable
  /\ last.err.msg[2] = df.SHA
  /\ last.err.msg[3] = Fingerprint(disk.bytes)
  /\ df.SHA = Fingerprint(df.Content)

\* C18 as claimed: whatever operations were called and whatever happened to
\* the file between them, the stored fingerprint is that of the stored content.
C18_FingerprintOfContent == ~df.isNil => df.SHA = Fingerprint(df.Content)

\* C19 as claimed: when Patch returns after it started the tool, the tool has
\* been waited for.
C19_ChildReaped == (pc = "p_returned" /\ pt.started) => pt.waited

\* C14: the fingerprint depends on the bytes of the file and on nothing else:
\* whatever the paths and whenever they were computed, two fingerprints are
\* equal exactly when the bytes they were computed from are equal.
C14_FingerprintOfBytesAlone ==
  \A p, q \in FsPaths :
    (sums[p].done /\ sums[q].done) =>
      (sums[p].sum = sums[q].sum <=> sums[p].bytes = sums[q].bytes)

C14_Witness ==
  /\ sums["Gemfile"].done /\ sums["Gemfile.lock"].done
  /\ sums["Gemfile"].bytes = <<97>>
  /\ sums["Gemfile.lock"].bytes = <<98>>
  /\ sums["Gemfile"].sum # sums["Gemfile.lock"].sum
  /\ fs["Gemfile"] = Unreadable

\* C20 as claimed: a list returned without error holds no nil entry; with a
\* list of paths an unreadable path makes the call return the error that names
\* it and no list.
C20_NoNilEntry ==
  found.called =>
    /\ found.err.kind = "nil" =>
         \A i \in 1..Len(found.dfiles) : ~found.dfiles[i].isNil
    /\ \A i \in 1..Len(found.files) :
         (/\ ~found.entry[found.files[i]].readable
          /\ \A j \in 1..(i - 1) : found.entry[found.files[j]].readable) =>
           /\ found.err = UnableToRead(found.files[i])
           /\ found.isNil

====
